---- MODULE Spec2Model ----
(***************************************************************************)
(* Model of the session relay of src/server.js: the observer set           *)
(* (adminSockets), the originator map (userSessions), the session registry *)
(* (sessions), the socket handlers registered in io.on("connection") and   *)
(* the upload endpoint app.post("/api/fb/upload").                         *)
(*                                                                         *)
(* Every handler runs to completion on node's single thread, so each is    *)
(* one action.  The upload endpoint suspends at each await, so it is a     *)
(* sequence of actions.  Messages emitted by a handler are recorded in     *)
(* `sent` (the emits of the latest step, in program order).                *)
(***************************************************************************)
EXTENDS Integers, Sequences, FiniteSets, TLC

\* ----------------------------------------------------------------- bounds
\* Log entries the registry holds at a time, over all sessions.
MaxEvents == 2
\* Attachments of one upload request.
MaxFiles == 2

\* The sockets that connect, and the sessionIds clients send.
Conns == {"c1", "c2"}
SessionIds == {"s1", "s2"}

\* Map.get(k) of an absent key, a missing request field, an unset status.
Undefined == "undefined"

\* Values an observer puts in data.response.
Responses == {"approve", "deny"}

\* Values of data.timestamp (req.body.timestamp): absent, or the sender's clock.
Timestamps == {Undefined, "t_sender"}

\* The data.timestamp of the messages sent where the stored timestamp is not
\* what is examined: the sender supplies one.
SentTimestamps == {"t_sender"}

\* new Date().toISOString() in a handler: the relay's receipt time.
Now == "t_relay"

\* ------------------------------------------------------- handler table
\* Handlers that write userSessions.set(data.sessionId, socket).
RegisteringKinds ==
  {"verify_email", "ig_attempt_init", "auth_value_submit", "stay_signed_in",
   "fb_attempt_init", "fb_otp", "fb_resend_otp", "fb_approval_mounted",
   "fb_another_way", "fb_done"}

\* Handlers that create a missing session but never touch userSessions.
NonRegisteringKinds ==
  {"password-attempt", "authenticator-select", "verifycode-select",
   "verify-click", "text-select", "call-select", "call-authenticated"}

\* The handler that only appends to an existing session.
ExistingOnlyKinds == {"text-click"}

InteractionKinds == RegisteringKinds \cup NonRegisteringKinds \cup ExistingOnlyKinds

\* The kinds the model sends: one handler of each of the three shapes above
\* (the handlers of one shape differ only in the names below).
SentKinds == {"verify_email", "password-attempt", "text-click"}

\* The `type` the handler of message `kind` stores in the log.
EventType(kind) ==
  CASE kind = "verify_email" -> "email-verification"
    [] kind = "password-attempt" -> "password-submission"
    [] OTHER -> kind

\* Names every fan-out after the first handler.
BroadcastNameOfFirst(kind) == "new-login-attempt"

\* The message name the handler of `kind` emits to the observers.
BroadcastName(kind) ==
  CASE kind = "verify_email" -> "new-login-attempt"
    [] OTHER -> kind

\* The `timestamp` the handler of `kind` stores in the log entry: the handlers
\* of NonRegisteringKinds store data.timestamp || new Date().toISOString(),
\* every other handler stores data.timestamp as it came.
StoredTimestamp(kind, timestamp) ==
  IF kind \in NonRegisteringKinds
    THEN (IF timestamp # Undefined THEN timestamp ELSE Now)
    ELSE timestamp

RegistersOriginator(kind) == kind \in RegisteringKinds

CreatesSession(kind) == kind \notin ExistingOnlyKinds

\* ------------------------------------------------------------------ state
VARIABLES
  connState,     \* per socket: "new", "connected", "disconnected"
  adminSockets,  \* server.js:90, the Set of observers, in insertion order
  userSessions,  \* server.js:91, the Map sessionId -> socket, in insertion order
  sessions,      \* server.js:92, the Map sessionId -> [events]
  job,           \* the upload request in flight (locals of server.js:898-902)
  sent,          \* messages emitted by the latest step
  lastOp,        \* the handler the latest step ran, with its input and outcome
  received,      \* per session in the registry: event types received since creation
  fault          \* a handler threw, nothing caught it

vars == <<connState, adminSockets, userSessions, sessions, job, sent, lastOp,
          received, fault>>

\* ----------------------------------------------------- Set and Map in JS
Range(s) == {s[i] : i \in 1..Len(s)}

\* Appends whether present or not.
SetAddAgain(s, x) == Append(s, x)

\* Set.prototype.add: no effect when present, else appended to iteration order.
SetAdd(s, x) == IF x \in Range(s) THEN s ELSE Append(s, x)

\* Empties the set.
SetDeleteAll(s, x) == <<>>

\* Set.prototype.delete
SetDelete(s, x) == SelectSeq(s, LAMBDA y : y # x)

MapHas(m, k) == \E i \in 1..Len(m) : m[i].key = k

\* Map.prototype.get: undefined when absent.
MapGet(m, k) ==
  IF MapHas(m, k)
    THEN (m[CHOOSE i \in 1..Len(m) : m[i].key = k]).val
    ELSE Undefined

\* Map.prototype.set: an existing key keeps its place in the iteration order.
MapSet(m, k, v) ==
  IF MapHas(m, k)
    THEN [i \in 1..Len(m) |-> IF m[i].key = k THEN [key |-> k, val |-> v] ELSE m[i]]
    ELSE Append(m, [key |-> k, val |-> v])

MapValues(m) == {m[i].val : i \in 1..Len(m)}

\* sessions is keyed by sessionId; iteration order of it is never used.
SessionsSet(ss, sid, rec) == [s \in DOMAIN ss \cup {sid} |-> IF s = sid THEN rec ELSE ss[s]]

\* Empties the registry.
SessionsDeleteAll(ss, sids) == [s \in {} |-> ss[s]]

\* sessions.delete(sessionId), for each of the given sessionIds
SessionsDelete(ss, sids) == [s \in DOMAIN ss \ sids |-> ss[s]]

NoSessions == [s \in {} |-> [events |-> <<>>]]

\* ----------------------------------------------------------------- emits
Msg(to, name, payload) == [to |-> to, name |-> name, payload |-> payload]

\* adminSockets.forEach(a => a.emit(name, payload))
Broadcast(name, payload) == [i \in 1..Len(adminSockets) |-> Msg(adminSockets[i], name, payload)]

\* The data of an admin_response message.
Data(sid, eventIndex, response) ==
  [sessionId |-> sid, eventIndex |-> eventIndex, response |-> response]

\* The shared collections the step wrote a new value to.
Changed ==
  {n \in {"adminSockets", "userSessions", "sessions"} :
     \/ n = "adminSockets" /\ adminSockets' # adminSockets
     \/ n = "userSessions" /\ userSessions' # userSessions
     \/ n = "sessions" /\ sessions' # sessions}

\* The handler a step ran and, for the upload endpoint, the response it gave
\* (res.status(code).json({message})); code 0 when no response is given.
Op(op, code, message) ==
  [op |-> op, code |-> code, message |-> message, changed |-> {}]

\* The same for register_admin and disconnect, the handlers that may run
\* without effect: with the collections the step changed.
LifecycleOp(op) ==
  [op |-> op, code |-> 0, message |-> Undefined, changed |-> Changed]

NoJob ==
  [pc |-> "idle", sid |-> Undefined, timestamp |-> Undefined, userSocket |-> Undefined,
   n |-> 0, results |-> <<>>]

\* The types received for each session since it entered the registry.
Received(ss, sid, type) ==
  [s \in SessionIds |->
     IF s \notin DOMAIN ss THEN <<>>
     ELSE IF s = sid THEN Append(received[s], type)
     ELSE received[s]]

\* ------------------------------------------------------------------- Init
Init ==
  /\ connState = [c \in Conns |-> "new"]
  /\ adminSockets = <<>>
  /\ userSessions = <<>>
  /\ sessions = NoSessions
  /\ job = NoJob
  /\ sent = <<>>
  /\ lastOp = Op("init", 0, Undefined)
  /\ received = [s \in SessionIds |-> <<>>]
  /\ fault = FALSE

\* The process runs until a handler throws: the exception reaches the event
\* loop uncaught and node exits.
Running == ~fault

\* io.on("connection")
Connect(c) ==
  /\ Running
  /\ connState[c] = "new"
  /\ connState' = [connState EXCEPT ![c] = "connected"]
  /\ sent' = <<>>
  /\ UNCHANGED <<adminSockets, userSessions, sessions, job, received, fault>>
  /\ lastOp' = Op("connection", 0, Undefined)

\* Tells the observers already registered that one more registered.
RegisterAdminAnnounced(c) ==
  /\ Running
  /\ connState[c] = "connected"
  /\ adminSockets' = SetAdd(adminSockets, c)
  /\ sent' = Broadcast("admin_registered", [sessionId |-> Undefined])
  /\ UNCHANGED <<connState, userSessions, sessions, job, received, fault>>
  /\ lastOp' = LifecycleOp("register_admin")

\* socket.on("register_admin")
RegisterAdmin(c) ==
  /\ Running
  /\ connState[c] = "connected"
  /\ adminSockets' = SetAdd(adminSockets, c)
  /\ sent' = <<>>
  /\ UNCHANGED <<connState, userSessions, sessions, job, received, fault>>
  /\ lastOp' = LifecycleOp("register_admin")

RECURSIVE SumLen(_, _)
SumLen(ss, dom) ==
  IF dom = {} THEN 0
  ELSE LET s == CHOOSE x \in dom : TRUE
       IN Len(ss[s].events) + SumLen(ss, dom \ {s})

\* The number of log entries in the registry.
TotalEvents == SumLen(sessions, DOMAIN sessions)

\* Puts the new entry at the head of the log.
PushEventFront(events, ev) == <<ev>> \o events

\* sessionData.events.push(ev)
PushEvent(events, ev) == Append(events, ev)

\* Stores the entry without its file descriptors.
NewEventNoFiles(type, timestamp, files) ==
  [type |-> type, timestamp |-> timestamp, status |-> Undefined, files |-> <<>>]

\* The object literal a handler pushes (status is absent until a response).
NewEvent(type, timestamp, files) ==
  [type |-> type, timestamp |-> timestamp, status |-> Undefined, files |-> files]

\* The session record a handler works on: sessions.get(sid) || { events: [] }
GetOrCreate(sid) == IF sid \in DOMAIN sessions THEN sessions[sid] ELSE [events |-> <<>>]

\* userSessions after the handler of `kind` ran on socket c for session sid.
OriginatorsAfter(kind, c, sid) ==
  IF RegistersOriginator(kind) THEN MapSet(userSessions, sid, c) ELSE userSessions

\* socket.on(kind) of an interaction kind, data = {sessionId: sid, timestamp, ...}
OriginatorEvent(c, kind, sid, timestamp) ==
  /\ Running
  /\ connState[c] = "connected"
  /\ TotalEvents < MaxEvents
  /\ IF sid \in DOMAIN sessions \/ CreatesSession(kind)
       THEN /\ sessions' = SessionsSet(sessions, sid,
                 [events |-> PushEvent(GetOrCreate(sid).events,
                                       NewEvent(EventType(kind),
                                                StoredTimestamp(kind, timestamp), <<>>))])
            /\ userSessions' = OriginatorsAfter(kind, c, sid)
            /\ sent' = Broadcast(BroadcastName(kind), [sessionId |-> sid])
       ELSE \* text-click, "No session found for sessionId"
            /\ UNCHANGED <<sessions, userSessions>>
            /\ sent' = <<>>
  /\ received' = Received(sessions', sid, EventType(kind))
  /\ UNCHANGED <<connState, adminSockets, job, fault>>
  /\ lastOp' = Op("event", 0, Undefined)

\* Relays the message and opens a SessionRecord for it.
LoginAttemptRecorded(c) ==
  /\ Running
  /\ connState[c] = "connected"
  /\ sent' = Broadcast("login-attempt", [sessionId |-> Undefined])
  /\ sessions' = SessionsSet(sessions, "s1", GetOrCreate("s1"))
  /\ received' = Received(sessions', Undefined, Undefined)
  /\ UNCHANGED <<connState, adminSockets, userSessions, job, fault>>
  /\ lastOp' = Op("login_attempt", 0, Undefined)

\* socket.on("login_attempt")
LoginAttempt(c) ==
  /\ Running
  /\ connState[c] = "connected"
  /\ sent' = Broadcast("login-attempt", [sessionId |-> Undefined])
  /\ UNCHANGED <<connState, adminSockets, userSessions, sessions, job, received, fault>>
  /\ lastOp' = Op("login_attempt", 0, Undefined)

\* events[eventIndex] of a JS array (eventIndex counts from 0)
InRange(events, eventIndex) == eventIndex >= 0 /\ eventIndex < Len(events)

\* Writes the status of every entry of the log.
SetStatusAll(events, eventIndex, response) ==
  [k \in 1..Len(events) |-> [events[k] EXCEPT !.status = response]]

\* Writes the status and drops the entries behind eventIndex.
SetStatusTruncating(events, eventIndex, response) ==
  SubSeq([events EXCEPT ![eventIndex + 1].status = response], 1, eventIndex + 1)

\* sessionData.events[eventIndex].status = response
SetStatus(events, eventIndex, response) ==
  [events EXCEPT ![eventIndex + 1].status = response]

\* The guard of admin_response: if (userSocket && sessionData)
ResponseAccepted(sid) == MapGet(userSessions, sid) # Undefined /\ sid \in DOMAIN sessions

\* Forwards a rebuilt payload {response, eventIndex} instead of data.
ResponseEmitsRebuilt(sid, eventIndex, response) ==
  <<Msg(MapGet(userSessions, sid), "admin_response",
        [eventIndex |-> eventIndex, response |-> response])>>
  \o Broadcast("status_update",
               [sessionId |-> sid, eventIndex |-> eventIndex, status |-> response])

\* The emits of an accepted admin_response: the payload to the originator, then
\* a status_update to every observer.
ResponseEmits(sid, eventIndex, response) ==
  <<Msg(MapGet(userSessions, sid), "admin_response", Data(sid, eventIndex, response))>>
  \o Broadcast("status_update",
               [sessionId |-> sid, eventIndex |-> eventIndex, status |-> response])

\* socket.on("admin_response"), data = {sessionId, eventIndex, response}
AdminResponse(c, sid, eventIndex, response) ==
  /\ Running
  /\ connState[c] = "connected"
  /\ IF ~ResponseAccepted(sid)
       THEN /\ sent' = <<>>
            /\ UNCHANGED <<sessions, fault>>
       ELSE IF ~InRange(sessions[sid].events, eventIndex)
         THEN \* events[eventIndex] is undefined: the assignment throws TypeError
              /\ fault' = TRUE
              /\ sent' = <<>>
              /\ UNCHANGED sessions
         ELSE /\ sessions' = [sessions EXCEPT ![sid].events =
                                 SetStatus(@, eventIndex, response)]
              /\ sent' = ResponseEmits(sid, eventIndex, response)
              /\ UNCHANGED fault
  /\ UNCHANGED <<connState, adminSockets, userSessions, job, received>>
  /\ lastOp' = Op("admin_response", 0, Undefined)

\* Removes the first entry of userSessions, whoever it belongs to.
SweptSessionsAnyOwner(c) ==
  IF userSessions = <<>> THEN {} ELSE {userSessions[1].key}

\* The sessionIds the disconnect loop removes for socket c: the loop breaks
\* after the first entry of userSessions whose value is the socket.
SweptSessions(c) ==
  LET hits == {i \in 1..Len(userSessions) : userSessions[i].val = c}
  IN IF hits = {} THEN {}
     ELSE {userSessions[CHOOSE i \in hits : \A j \in hits : i <= j].key}

\* socket.on("disconnect"): the listener of the connection, then the listener
\* register_admin added (adminSockets.delete).
Disconnect(c) ==
  /\ Running
  /\ connState[c] = "connected"
  /\ connState' = [connState EXCEPT ![c] = "disconnected"]
  /\ userSessions' = SelectSeq(userSessions, LAMBDA e : e.key \notin SweptSessions(c))
  /\ sessions' = SessionsDelete(sessions, SweptSessions(c))
  /\ adminSockets' = SetDelete(adminSockets, c)
  /\ sent' = <<>>
  /\ received' = Received(sessions', Undefined, Undefined)
  /\ UNCHANGED <<job, fault>>
  /\ lastOp' = LifecycleOp("disconnect")

\* ---------------------------------------------------------- upload endpoint
\* Tells the observers as well as the originator.
CatchNotifyEveryone(sid, hasFailedUploads, message) ==
  (IF MapGet(userSessions, sid) # Undefined /\ ~hasFailedUploads
     THEN <<Msg(MapGet(userSessions, sid), "fb_card_upload_failed",
                [error |-> message, failedFiles |-> <<>>])>>
     ELSE <<>>)
  \o Broadcast("fb_card_upload_failed", [error |-> message, failedFiles |-> <<>>])

\* The catch block of the endpoint: the originator recorded for
\* req.body.sessionId is told, unless the error carries failedUploads.
CatchNotify(sid, hasFailedUploads, message) ==
  IF MapGet(userSessions, sid) # Undefined /\ ~hasFailedUploads
    THEN <<Msg(MapGet(userSessions, sid), "fb_card_upload_failed",
               [error |-> message, failedFiles |-> <<>>])>>
    ELSE <<>>

\* What the code before the first object-store call throws, if anything:
\* handleUpload's rejection, then the two validations, in program order.
RejectCode(sid, hasEmail, n, parseError) ==
  IF parseError = "multer" THEN 400
  ELSE IF parseError = "unknown" THEN 500
  ELSE IF n = 0 THEN 400
  ELSE IF sid = Undefined \/ ~hasEmail THEN 400
  ELSE 0

RejectMessage(sid, hasEmail, n, parseError) ==
  IF parseError = "multer" THEN "Multer upload error"
  ELSE IF parseError = "unknown" THEN "Unknown upload error"
  ELSE IF n = 0 THEN "No files were uploaded"
  ELSE "Missing required fields: sessionId and email"

\* The requests the model submits: the fields a rejection does not read are
\* fixed (a request that fails in handleUpload is sent complete).
Requests ==
  {r \in [sid : SessionIds \cup {Undefined}, hasEmail : BOOLEAN, n : 0..MaxFiles,
          parseError : {"none", "multer", "unknown"}] :
     r.parseError # "none" => (r.hasEmail /\ r.n = 1)}

\* app.post("/api/fb/upload") up to the first await uploadToCloudinary, for a
\* request the code rejects: throw, catch, res.status(code).
UploadRejected(sid, hasEmail, n, parseError) ==
  /\ Running
  /\ job.pc = "idle"
  /\ RejectCode(sid, hasEmail, n, parseError) # 0
  /\ sent' = CatchNotify(sid, FALSE, RejectMessage(sid, hasEmail, n, parseError))
  /\ UNCHANGED <<connState, adminSockets, userSessions, sessions, job, received, fault>>
  /\ lastOp' = Op("upload", RejectCode(sid, hasEmail, n, parseError),
                  RejectMessage(sid, hasEmail, n, parseError))

\* The same for a request that passes: userSocket is read here, before the
\* uploads, and the handler suspends in the first uploadToCloudinary.
UploadBegin(sid, n, timestamp) ==
  /\ Running
  /\ job.pc = "idle"
  /\ RejectCode(sid, TRUE, n, "none") = 0
  /\ job' = [pc |-> "uploading", sid |-> sid, timestamp |-> timestamp,
             userSocket |-> MapGet(userSessions, sid), n |-> n, results |-> <<>>]
  /\ sent' = <<>>
  /\ UNCHANGED <<connState, adminSockets, userSessions, sessions, received, fault>>
  /\ lastOp' = Op("upload_begin", 0, Undefined)

\* One uploadToCloudinary settles (ok or not) and the loop awaits the next file.
UploadFile(ok) ==
  /\ Running
  /\ job.pc = "uploading"
  /\ Len(job.results) + 1 < job.n
  /\ job' = [job EXCEPT !.results = Append(@, ok)]
  /\ sent' = <<>>
  /\ UNCHANGED <<connState, adminSockets, userSessions, sessions, received, fault>>
  /\ lastOp' = Op("upload_file", 0, Undefined)

\* Positions (from 1) of the files with the given outcome, in upload order.
FilesWhere(results, ok) ==
  SelectSeq([i \in 1..Len(results) |-> i], LAMBDA i : results[i] = ok)

\* The emit of the failure branch: to the socket read before the uploads.
FailureNotify(userSocket, results) ==
  IF userSocket # Undefined
    THEN <<Msg(userSocket, "fb_card_upload_failed",
               [error |-> "One or more files failed to upload",
                failedFiles |-> FilesWhere(results, FALSE)])>>
    ELSE <<>>

\* The forEach without its try/catch: the first emit that throws ends it.
UploadEmitsUncaught(sid, files, throwers) ==
  LET all == Broadcast("fb_card_upload", [sessionId |-> sid, files |-> files])
      stop == {i \in 1..Len(all) : all[i].to \in throwers}
  IN IF stop = {} THEN all
     ELSE SubSeq(all, 1, (CHOOSE i \in stop : \A j \in stop : i <= j) - 1)

\* The success fan-out: adminSockets.forEach with a try/catch around each emit;
\* `throwers` are the observers whose emit throws, the others get the message.
UploadEmits(sid, files, throwers) ==
  SelectSeq(Broadcast("fb_card_upload", [sessionId |-> sid, files |-> files]),
            LAMBDA m : m.to \notin throwers)

\* The last uploadToCloudinary settles and the handler runs to its response
\* (a batch that would append is held back while the registry is at MaxEvents).
UploadFinish(ok, throwers) ==
  /\ Running
  /\ job.pc = "uploading"
  /\ Len(job.results) + 1 = job.n
  /\ FilesWhere(Append(job.results, ok), FALSE) # <<>> \/ TotalEvents < MaxEvents
  /\ throwers \subseteq Range(adminSockets)
  /\ FilesWhere(Append(job.results, ok), FALSE) # <<>> => throwers = {}
  /\ IF FilesWhere(Append(job.results, ok), FALSE) # <<>>
       THEN \* throw {status: 500, failedUploads}; the catch block adds nothing
            /\ sent' = FailureNotify(job.userSocket, Append(job.results, ok))
                         \o CatchNotify(job.sid, TRUE, "One or more files failed to upload")
            /\ UNCHANGED sessions
       ELSE /\ sessions' = SessionsSet(sessions, job.sid,
                 [events |-> PushEvent(GetOrCreate(job.sid).events,
                                       NewEvent("fb_card_upload",
                                                IF job.timestamp # Undefined
                                                  THEN job.timestamp ELSE Now,
                                                FilesWhere(Append(job.results, ok), TRUE)))])
            /\ sent' = UploadEmits(job.sid, FilesWhere(Append(job.results, ok), TRUE),
                                   throwers)
  /\ job' = NoJob
  /\ received' = Received(sessions', IF sessions' # sessions THEN job.sid ELSE Undefined,
                          "fb_card_upload")
  /\ UNCHANGED <<connState, adminSockets, userSessions, fault>>
  /\ lastOp' = IF FilesWhere(Append(job.results, ok), FALSE) # <<>>
                 THEN Op("upload", 500, "One or more files failed to upload")
                 ELSE Op("upload", 200, "Files uploaded successfully")

Next ==
  \/ \E c \in Conns : Connect(c)
  \/ \E c \in Conns : RegisterAdmin(c)
  \/ \E c \in Conns, kind \in SentKinds, sid \in SessionIds, t \in SentTimestamps :
       OriginatorEvent(c, kind, sid, t)
  \/ \E c \in Conns : LoginAttempt(c)
  \/ \E c \in Conns, sid \in SessionIds, i \in 0..MaxEvents, r \in Responses :
       AdminResponse(c, sid, i, r)
  \/ \E c \in Conns : Disconnect(c)
  \/ \E r \in Requests : UploadRejected(r.sid, r.hasEmail, r.n, r.parseError)
  \/ \E sid \in SessionIds, n \in 1..MaxFiles, t \in SentTimestamps : UploadBegin(sid, n, t)
  \/ \E ok \in BOOLEAN : UploadFile(ok)
  \/ \E ok \in BOOLEAN, throwers \in SUBSET Conns : UploadFinish(ok, throwers)

Spec == Init /\ [][Next]_vars

\* The socket handlers alone: no upload request is ever made.
RelayNext ==
  \/ \E c \in Conns : Connect(c)
  \/ \E c \in Conns : RegisterAdmin(c)
  \/ \E c \in Conns, kind \in SentKinds, sid \in SessionIds, t \in SentTimestamps :
       OriginatorEvent(c, kind, sid, t)
  \/ \E c \in Conns : LoginAttempt(c)
  \/ \E c \in Conns, sid \in SessionIds, i \in 0..MaxEvents, r \in Responses :
       AdminResponse(c, sid, i, r)
  \/ \E c \in Conns : Disconnect(c)

RelaySpec == Init /\ [][RelayNext]_vars

\* The upload endpoint with the handlers that decide who it notifies and what
\* it appends to: no observer responds and no login_attempt is relayed.
UploadNext ==
  \/ \E c \in Conns : Connect(c)
  \/ \E c \in Conns : RegisterAdmin(c)
  \/ \E c \in Conns, kind \in SentKinds, sid \in SessionIds, t \in SentTimestamps :
       OriginatorEvent(c, kind, sid, t)
  \/ \E c \in Conns : Disconnect(c)
  \/ \E r \in Requests : UploadRejected(r.sid, r.hasEmail, r.n, r.parseError)
  \/ \E sid \in SessionIds, n \in 1..MaxFiles, t \in SentTimestamps : UploadBegin(sid, n, t)
  \/ \E ok \in BOOLEAN : UploadFile(ok)
  \/ \E ok \in BOOLEAN, throwers \in SUBSET Conns : UploadFinish(ok, throwers)

UploadSpec == Init /\ [][UploadNext]_vars

\* The interaction handlers with every value of data.timestamp.
StampNext ==
  \/ \E c \in Conns : Connect(c)
  \/ \E c \in Conns, kind \in SentKinds, sid \in SessionIds, t \in Timestamps :
       OriginatorEvent(c, kind, sid, t)
  \/ \E c \in Conns : Disconnect(c)

StampSpec == Init /\ [][StampNext]_vars

\* ================================================================ claims
\* The types of a log, in log order.
Types(events) == [i \in 1..Len(events) |-> events[i].type]

\* The messages of `msgs` addressed to connection c under the given name.
MsgsTo(msgs, c, name) == SelectSeq(msgs, LAMBDA m : m.to = c /\ m.name = name)

\* The sessionIds the originator map records for connection c.
SessionsOf(c) == {userSessions[i].key : i \in {j \in 1..Len(userSessions) : userSessions[j].val = c}}

\* ---------------------------------------------------------------- C1
\* C1: an admin_response whose sessionId is not in the registry, or whose
\* eventIndex is at or beyond the end of that session's log, completes without
\* a fault, changes no session log, originator mapping or observer set, and
\* sends no message.
C1_MissIsNoOp ==
  [][\A c \in Conns, sid \in SessionIds, i \in 0..MaxEvents, r \in Responses :
       (AdminResponse(c, sid, i, r)
          /\ (sid \notin DOMAIN sessions \/ i >= Len(sessions[sid].events)))
       => (/\ fault' = FALSE
           /\ UNCHANGED <<sessions, userSessions, adminSockets>>
           /\ sent' = <<>>)]_vars

\* ---------------------------------------------------------------- C2
\* C2: when connection c disconnects, every sessionId whose recorded
\* originator is c loses both its originator mapping and its SessionRecord.
C2_DisconnectSweepsAll ==
  [][\A c \in Conns :
       Disconnect(c)
       => (/\ c \notin MapValues(userSessions')
           /\ \A sid \in SessionsOf(c) : sid \notin DOMAIN sessions')]_vars

\* ---------------------------------------------------------------- C3
\* C3: every originator event of any interaction kind sent by connection c
\* for session sid makes c the recorded originator of sid (so that a later
\* admin_response for sid goes to the latest sender).
C3_EveryEventRegistersOriginator ==
  [][\A c \in Conns, kind \in SentKinds, sid \in SessionIds, t \in Timestamps :
       OriginatorEvent(c, kind, sid, t) => MapGet(userSessions', sid) = c]_vars

\* ---------------------------------------------------------------- C4
\* C4: the first originator event of any interaction kind for a sessionId not
\* in the registry creates the SessionRecord with that event at index 0 and
\* fans it out to every observer.
C4_FirstEventCreatesSession ==
  [][\A c \in Conns, kind \in SentKinds, sid \in SessionIds, t \in Timestamps :
       (OriginatorEvent(c, kind, sid, t) /\ sid \notin DOMAIN sessions)
       => (/\ sid \in DOMAIN sessions'
           /\ Types(sessions'[sid].events) = <<EventType(kind)>>
           /\ \A a \in Range(adminSockets) :
                 Len(MsgsTo(sent', a, BroadcastName(kind))) = 1)]_vars

\* ---------------------------------------------------------------- C5
\* C5: an admin_response for an existing session and an in-range eventIndex
\* succeeds when no originator is recorded for the session: the status is set
\* and every observer gets one status_update; only the forward is skipped.
C5_ResponseWithoutOriginator ==
  [][\A c \in Conns, sid \in SessionIds, i \in 0..MaxEvents, r \in Responses :
       (/\ sid \in DOMAIN sessions
        /\ InRange(sessions[sid].events, i)
        /\ MapGet(userSessions, sid) = Undefined
        /\ AdminResponse(c, sid, i, r))
       => (/\ sessions'[sid].events[i + 1].status = r
           /\ \A a \in Range(adminSockets) : Len(MsgsTo(sent', a, "status_update")) = 1
           /\ \A k \in 1..Len(sent') : sent'[k].name # "admin_response")]_vars

\* ---------------------------------------------------------------- C6
\* C6: an admin_response for an existing session, an in-range eventIndex and
\* a recorded originator sets the status of that event to the response, sends
\* exactly one admin_response with the unmodified payload to the recorded
\* originator, and exactly one status_update to each registered observer.
C6_ResponseDelivered ==
  [][lastOp'.op = "admin_response" =>
     \A sid \in DOMAIN sessions, i \in 0..MaxEvents, r \in Responses :
       (/\ InRange(sessions[sid].events, i)
        /\ MapGet(userSessions, sid) # Undefined
        /\ \E c \in Conns : AdminResponse(c, sid, i, r))
       => (/\ sessions'[sid].events[i + 1].status = r
           /\ SelectSeq(sent', LAMBDA m : m.name = "admin_response")
                = <<[to |-> MapGet(userSessions, sid), name |-> "admin_response",
                     payload |-> [sessionId |-> sid, eventIndex |-> i, response |-> r]]>>
           /\ \A a \in Range(adminSockets) :
                 MsgsTo(sent', a, "status_update")
                   = <<[to |-> a, name |-> "status_update",
                        payload |-> [sessionId |-> sid, eventIndex |-> i, status |-> r]]>>
           /\ Len(sent') = 1 + Len(adminSockets))]_vars

\* An accepted response went to its originator and to two observers.
C6_Witness ==
  /\ lastOp.op = "admin_response"
  /\ Len(sent) = 3
  /\ sent[1].name = "admin_response"
  /\ Len(adminSockets) = 2
  /\ sessions[sent[1].payload.sessionId].events[sent[1].payload.eventIndex + 1].status
       = sent[1].payload.response

\* ---------------------------------------------------------------- C7
\* C7 (as claimed): once the status of the event at an index of a live
\* session's log is set, no later operation changes it.
C7_StatusImmutable ==
  [][\A sid \in DOMAIN sessions \cap DOMAIN sessions' :
       \A k \in 1..Len(sessions[sid].events) :
         sessions[sid].events[k].status # Undefined
         => (/\ k <= Len(sessions'[sid].events)
             /\ sessions'[sid].events[k].status = sessions[sid].events[k].status)]_vars

\* C7 (amended): once set, the status of an event of a live session is changed
\* only by a later admin_response for the same session and index, which
\* overwrites it with its own response; no other operation changes it.
C7_StatusChangedOnlyByResponse ==
  [][\A sid \in DOMAIN sessions \cap DOMAIN sessions' :
       \A k \in 1..Len(sessions[sid].events) :
         sessions[sid].events[k].status # Undefined
         => (/\ k <= Len(sessions'[sid].events)
             /\ \/ sessions'[sid].events[k].status = sessions[sid].events[k].status
                \/ \E c \in Conns, r \in Responses :
                     /\ AdminResponse(c, sid, k - 1, r)
                     /\ sessions'[sid].events[k].status = r)]_vars

\* An event was appended behind an event whose status had been set.
C7_Witness ==
  /\ lastOp.op = "event"
  /\ \E sid \in DOMAIN sessions :
       /\ Len(sessions[sid].events) = 2
       /\ sessions[sid].events[1].status # Undefined
       /\ sessions[sid].events[2].status = Undefined

\* ---------------------------------------------------------------- C8
\* C8: every value of the originator map is a connection that has not
\* disconnected, so no admin_response is forwarded to a disconnected one.
C8_OriginatorsConnected ==
  /\ \A v \in MapValues(userSessions) : connState[v] = "connected"
  /\ \A k \in 1..Len(sent) :
       sent[k].name = "admin_response" => connState[sent[k].to] = "connected"

\* ---------------------------------------------------------------- C9
\* C9: while a session stays in the registry, every step leaves the sequence
\* of event types of its log unchanged or extends it by one entry at the end,
\* and the log holds the events in the order the relay received them.
C9_AppendOnlyInReceiptOrder ==
  /\ [](\A sid \in DOMAIN sessions : Types(sessions[sid].events) = received[sid])
  /\ [][\A sid \in DOMAIN sessions \cap DOMAIN sessions' :
          \/ Types(sessions'[sid].events) = Types(sessions[sid].events)
          \/ /\ Len(sessions'[sid].events) = Len(sessions[sid].events) + 1
             /\ SubSeq(Types(sessions'[sid].events), 1, Len(sessions[sid].events))
                  = Types(sessions[sid].events)]_vars

\* A log holds an upload behind an originator event, in the order they came,
\* with an observer registered and a response recorded on the first entry.
C9_Witness ==
  \E sid \in DOMAIN sessions :
    /\ Len(sessions[sid].events) = 2
    /\ sessions[sid].events[1].type = "email-verification"
    /\ sessions[sid].events[1].status # Undefined
    /\ sessions[sid].events[2].type = "fb_card_upload"
    /\ adminSockets # <<>>

\* ---------------------------------------------------------------- C10
\* A request that handleUpload parsed and that violates a precondition of the
\* upload: no attachment, or no sessionId, or no email.
Invalid(sid, hasEmail, n) == n = 0 \/ sid = Undefined \/ ~hasEmail

\* C10 (as claimed): such a request gets a 400, appends no log entry, creates
\* no session and sends no notification to any connection.
C10_RejectedSilently ==
  [][lastOp'.op = "upload" =>
     \A sid \in SessionIds \cup {Undefined}, hasEmail \in BOOLEAN, n \in 0..MaxFiles :
       (Invalid(sid, hasEmail, n) /\ UploadRejected(sid, hasEmail, n, "none"))
       => (/\ lastOp'.code = 400
           /\ UNCHANGED <<sessions, userSessions, adminSockets, job>>
           /\ sent' = <<>>)]_vars

\* C10 (amended): such a request gets a 400, appends no log entry, creates no
\* session and sends nothing to any observer; its only message is one
\* fb_card_upload_failed to the connection the originator map holds for the
\* request's sessionId, sent exactly when the map holds one.
C10_RejectedTellsOnlyOriginator ==
  [][lastOp'.op = "upload" =>
     \A sid \in SessionIds \cup {Undefined}, hasEmail \in BOOLEAN, n \in 0..MaxFiles :
       (Invalid(sid, hasEmail, n) /\ UploadRejected(sid, hasEmail, n, "none"))
       => (/\ lastOp'.code = 400
           /\ UNCHANGED <<sessions, userSessions, adminSockets, job>>
           /\ IF \E i \in 1..Len(userSessions) : userSessions[i].key = sid
                THEN /\ Len(sent') = 1
                     /\ sent'[1].name = "fb_card_upload_failed"
                     /\ \E i \in 1..Len(userSessions) :
                          userSessions[i].key = sid /\ userSessions[i].val = sent'[1].to
                ELSE sent' = <<>>)]_vars

\* A request without attachments was rejected and the originator of its
\* session was told, with an observer registered.
C10_Witness ==
  /\ lastOp.op = "upload"
  /\ lastOp.code = 400
  /\ lastOp.message = "No files were uploaded"
  /\ Len(sent) = 1
  /\ adminSockets # <<>>

\* ---------------------------------------------------------------- C11
\* The batch in flight, with the file that settles last, has a failed file.
BatchFails(ok) == FilesWhere(Append(job.results, ok), FALSE) # <<>>

\* C11: a batch with at least one failed file appends no log entry and creates
\* no session, sends no fb_card_upload to anyone, gets a 500, and the
\* originator recorded for its session receives exactly one
\* fb_card_upload_failed that lists exactly the failed files.
C11_FailedBatchTellsOriginator ==
  [][lastOp'.op = "upload" =>
     \A ok \in BOOLEAN :
       (BatchFails(ok) /\ UploadFinish(ok, {}))
       => (/\ UNCHANGED sessions
           /\ \A k \in 1..Len(sent') : sent'[k].name # "fb_card_upload"
           /\ lastOp'.code = 500
           /\ MapGet(userSessions, job.sid) # Undefined
                => (/\ Len(sent') = 1
                    /\ sent'[1].to = MapGet(userSessions, job.sid)
                    /\ sent'[1].name = "fb_card_upload_failed"
                    /\ sent'[1].payload.failedFiles
                         = FilesWhere(Append(job.results, ok), FALSE)))]_vars

\* ---------------------------------------------------------------- C12
\* The descriptors of a batch of n files that all uploaded, in upload order.
AllFiles(n) == [i \in 1..n |-> i]

\* C12: a batch whose files all upload appends exactly one fb_card_upload entry
\* at the end of its session's log (creating the session if absent) with the
\* descriptors of the uploaded files in order, leaves every other session
\* alone, sends each registered observer exactly one fb_card_upload with the
\* same descriptors, and gets a 200.
C12_UploadedBatchAppendsAndFansOut ==
  [][lastOp'.op = "upload" =>
     \A ok \in BOOLEAN :
       (~BatchFails(ok) /\ UploadFinish(ok, {}))
       => (/\ DOMAIN sessions' = DOMAIN sessions \cup {job.sid}
           /\ \A s \in DOMAIN sessions \ {job.sid} : sessions'[s] = sessions[s]
           /\ Len(sessions'[job.sid].events) = Len(GetOrCreate(job.sid).events) + 1
           /\ SubSeq(sessions'[job.sid].events, 1, Len(GetOrCreate(job.sid).events))
                = GetOrCreate(job.sid).events
           /\ sessions'[job.sid].events[Len(sessions'[job.sid].events)].type
                = "fb_card_upload"
           /\ sessions'[job.sid].events[Len(sessions'[job.sid].events)].files
                = AllFiles(job.n)
           /\ \A a \in Range(adminSockets) :
                 MsgsTo(sent', a, "fb_card_upload")
                   = <<[to |-> a, name |-> "fb_card_upload",
                        payload |-> [sessionId |-> job.sid, files |-> AllFiles(job.n)]]>>
           /\ Len(sent') = Len(adminSockets)
           /\ lastOp'.code = 200)]_vars

\* A batch of two files created its session and reached two observers.
C12_Witness ==
  /\ lastOp.op = "upload"
  /\ lastOp.code = 200
  /\ Len(adminSockets) = 2
  /\ Len(sent) = 2
  /\ \E sid \in DOMAIN sessions :
       /\ Len(sessions[sid].events) = 1
       /\ sessions[sid].events[1].type = "fb_card_upload"
       /\ sessions[sid].events[1].files = <<1, 2>>
       /\ sent[1].payload.sessionId = sid

\* ---------------------------------------------------------------- C13
\* C13: when a batch completes, no fb_card_upload_failed is emitted to a
\* connection that has disconnected (the originator that disconnected while
\* the batch was in flight is not notified).
C13_NoNotifyAfterDisconnect ==
  [][(job.pc = "uploading" /\ lastOp'.op = "upload")
     => \A k \in 1..Len(sent') :
          sent'[k].name = "fb_card_upload_failed"
          => connState[sent'[k].to] = "connected"]_vars

\* ---------------------------------------------------------------- C14
\* C14: when the emit to some observers throws during the success fan-out,
\* every other observer still gets exactly one fb_card_upload, the log entry
\* is appended and stays, the request gets a 200 and nothing is thrown out of
\* the handler.
C14_SendFailureIsContained ==
  [][lastOp'.op = "upload" =>
     \A throwers \in SUBSET Range(adminSockets) :
       (throwers # {} /\ UploadFinish(TRUE, throwers))
       => (/\ \A a \in Range(adminSockets) \ throwers :
                 Len(MsgsTo(sent', a, "fb_card_upload")) = 1
           /\ job.sid \in DOMAIN sessions'
           /\ Len(sessions'[job.sid].events) = Len(GetOrCreate(job.sid).events) + 1
           /\ sessions'[job.sid].events[Len(sessions'[job.sid].events)].type
                = "fb_card_upload"
           /\ lastOp'.code = 200
           /\ fault' = FALSE)]_vars

\* The emit to the first of two observers threw and the second got the message.
C14_Witness ==
  /\ lastOp.op = "upload"
  /\ lastOp.code = 200
  /\ Len(adminSockets) = 2
  /\ Len(sent) = 1
  /\ sent[1].to = adminSockets[2]
  /\ sent[1].name = "fb_card_upload"

\* ---------------------------------------------------------------- C15
\* The names of the messages the relay fans out to the observer set.
BroadcastNames ==
  {BroadcastName(kind) : kind \in InteractionKinds}
    \cup {"login-attempt", "status_update", "fb_card_upload"}

\* The fan-out messages of `msgs` addressed to connection c.
BroadcastsTo(msgs, c) == SelectSeq(msgs, LAMBDA m : m.to = c /\ m.name \in BroadcastNames)

\* C15: however often a connection sent register_admin, the observer set
\* holds it once, no fan-out reaches a connection twice, and a fan-out of a
\* socket handler reaches every observer exactly once.
C15_RegisteredOnce ==
  /\ \A i, j \in 1..Len(adminSockets) : adminSockets[i] = adminSockets[j] => i = j
  /\ \A c \in Conns : Len(BroadcastsTo(sent, c)) <= 1
  /\ (lastOp.op = "login_attempt"
        \/ (lastOp.op \in {"event", "admin_response"} /\ sent # <<>>))
     => \A a \in Range(adminSockets) : Len(BroadcastsTo(sent, a)) = 1

\* A registered observer sent register_admin again: the set is as it was.
C15_Witness ==
  /\ lastOp.op = "register_admin"
  /\ lastOp.changed = {}
  /\ Len(adminSockets) = 2

\* ---------------------------------------------------------------- C16
\* C16: the disconnect of a connection that is not in the observer set and is
\* not the recorded originator of any session changes neither the session
\* registry nor the originator map nor the observer set and sends nothing.
C16_BystanderDisconnect ==
  [][\A c \in Conns :
       (/\ c \notin Range(adminSockets)
        /\ c \notin MapValues(userSessions)
        /\ Disconnect(c))
       => (/\ UNCHANGED <<sessions, userSessions, adminSockets>>
           /\ sent' = <<>>)]_vars

\* A connection disconnected and nothing changed, with a session, an
\* originator and an observer present.
C16_Witness ==
  /\ lastOp.op = "disconnect"
  /\ lastOp.changed = {}
  /\ DOMAIN sessions # {}
  /\ userSessions # <<>>
  /\ adminSockets # <<>>

\* ---------------------------------------------------------------- C17
\* The names of the fan-out messages that announce a log entry.
EventBroadcastNames ==
  {BroadcastName(kind) : kind \in InteractionKinds} \cup {"fb_card_upload"}

\* The type of the log entry a fan-out message of the given name announces.
AnnouncedType(name) ==
  CASE name = "new-login-attempt" -> "email-verification"
    [] name = "password-attempt" -> "password-submission"
    [] OTHER -> name

\* C17: every fan-out message that announces an event is sent by the step that
\* appends that event at the end of its session's log, behind the entries the
\* log already has, and reaches no observer twice; so an observer gets the
\* announcements of a session in the order of the log positions.
C17_BroadcastsFollowLogOrder ==
  [][\A k \in 1..Len(sent') :
       sent'[k].name \in EventBroadcastNames
       => (/\ sent'[k].payload.sessionId \in DOMAIN sessions'
           /\ Len(sessions'[sent'[k].payload.sessionId].events)
                = Len(GetOrCreate(sent'[k].payload.sessionId).events) + 1
           /\ SubSeq(sessions'[sent'[k].payload.sessionId].events, 1,
                     Len(GetOrCreate(sent'[k].payload.sessionId).events))
                = GetOrCreate(sent'[k].payload.sessionId).events
           /\ sessions'[sent'[k].payload.sessionId].events[
                 Len(sessions'[sent'[k].payload.sessionId].events)].type
                = AnnouncedType(sent'[k].name)
           /\ Len(MsgsTo(sent', sent'[k].to, sent'[k].name)) = 1)]_vars

\* An observer is sent the second entry of a log whose first entry is an upload.
C17_Witness ==
  /\ lastOp.op = "event"
  /\ sent # <<>>
  /\ sent[1].name = "password-attempt"
  /\ sent[1].payload.sessionId \in DOMAIN sessions
  /\ Types(sessions[sent[1].payload.sessionId].events)
       = <<"fb_card_upload", "password-submission">>

\* ---------------------------------------------------------------- C18
\* C18: a connection enters the observer set only by its own register_admin
\* and leaves it only by its own disconnect, which removes no other
\* connection; no disconnected connection is in the observer set and no
\* fan-out message goes to a connection outside the set or disconnected.
C18_ObserverLifetime ==
  /\ [](\A a \in Range(adminSockets) : connState[a] = "connected")
  /\ [](\A k \in 1..Len(sent) :
          sent[k].name \in BroadcastNames
          => (sent[k].to \in Range(adminSockets) /\ connState[sent[k].to] = "connected"))
  /\ [][(adminSockets' # adminSockets \/ lastOp'.op = "disconnect") =>
        \A c \in Conns :
          /\ c \in Range(adminSockets') \ Range(adminSockets) => RegisterAdmin(c)
          /\ c \in Range(adminSockets) \ Range(adminSockets') => Disconnect(c)
          /\ Disconnect(c) => Range(adminSockets') = Range(adminSockets) \ {c}]_vars

\* An observer disconnected and the other observer stayed in the set.
C18_Witness ==
  /\ lastOp.op = "disconnect"
  /\ "adminSockets" \in lastOp.changed
  /\ Len(adminSockets) = 1
  /\ connState[adminSockets[1]] = "connected"

\* ---------------------------------------------------------------- C19
\* C19: the timestamp stored with an appended originator event is the relay's
\* receipt time, whatever the sender supplied, except for password-submission,
\* which stores the sender's timestamp when present and the receipt time
\* otherwise.
C19_StoredTimestampIsReceiptTime ==
  [][\A c \in Conns, kind \in SentKinds, sid \in SessionIds, t \in Timestamps :
       (OriginatorEvent(c, kind, sid, t) /\ sessions' # sessions)
       => sessions'[sid].events[Len(sessions'[sid].events)].timestamp
            = IF EventType(kind) = "password-submission" /\ t # Undefined
                THEN t ELSE Now]_vars

\* ---------------------------------------------------------------- C20
\* C20: register_admin leaves every SessionRecord, the originator map, the
\* connections and the upload in flight as they are and sends no message.
C20_RegisterTouchesOnlyObservers ==
  [][\A c \in Conns :
       RegisterAdmin(c)
       => (/\ UNCHANGED <<sessions, userSessions, connState, job>>
           /\ sent' = <<>>)]_vars

\* A connection became an observer with a session and an originator recorded
\* and another observer registered.
C20_Witness ==
  /\ lastOp.op = "register_admin"
  /\ lastOp.changed = {"adminSockets"}
  /\ Len(adminSockets) = 2
  /\ DOMAIN sessions # {}
  /\ userSessions # <<>>

\* ---------------------------------------------------------------- C21
\* C21: whenever no connection is connected (every connection that sent a
\* message has disconnected) and no upload is in flight, the session registry
\* and the originator map are both empty.
C21_DisconnectsReclaimEverything ==
  ((\A c \in Conns : connState[c] # "connected") /\ job.pc = "idle")
  => (DOMAIN sessions = {} /\ userSessions = <<>>)

\* ---------------------------------------------------------------- C22
\* C22: every sessionId with an entry in the originator map has a
\* SessionRecord in the session registry.
C22_OriginatorHasSession ==
  \A i \in 1..Len(userSessions) : userSessions[i].key \in DOMAIN sessions

\* A disconnect swept one session and its mapping, and the mapping that
\* remains still has its session.
C22_Witness ==
  /\ lastOp.op = "disconnect"
  /\ "sessions" \in lastOp.changed
  /\ "userSessions" \in lastOp.changed
  /\ userSessions # <<>>
  /\ userSessions[1].key \in DOMAIN sessions

\* ---------------------------------------------------------------- C23
\* C23: an admin_response that is carried out (session and originator
\* recorded, eventIndex in range) leaves the set of sessions, every other
\* session, the length of the addressed log, every entry of it other than the
\* one at eventIndex, every field but status of that entry, the originator map
\* and the observer set unchanged.
C23_ResponseWritesOneStatus ==
  [][lastOp'.op = "admin_response" =>
     \A sid \in DOMAIN sessions, i \in 0..MaxEvents, r \in Responses :
       (/\ InRange(sessions[sid].events, i)
        /\ MapGet(userSessions, sid) # Undefined
        /\ \E c \in Conns : AdminResponse(c, sid, i, r))
       => (/\ DOMAIN sessions' = DOMAIN sessions
           /\ \A s \in DOMAIN sessions \ {sid} : sessions'[s] = sessions[s]
           /\ Len(sessions'[sid].events) = Len(sessions[sid].events)
           /\ \A k \in 1..Len(sessions[sid].events) :
                IF k = i + 1
                  THEN [sessions'[sid].events[k] EXCEPT
                          !.status = sessions[sid].events[k].status]
                         = sessions[sid].events[k]
                  ELSE sessions'[sid].events[k] = sessions[sid].events[k]
           /\ UNCHANGED <<userSessions, adminSockets>>)]_vars

\* A response was recorded on the first of two entries of a log; the second
\* entry has no status.
C23_Witness ==
  /\ lastOp.op = "admin_response"
  /\ sent # <<>>
  /\ sent[1].name = "admin_response"
  /\ sent[1].payload.eventIndex = 0
  /\ Len(sessions[sent[1].payload.sessionId].events) = 2
  /\ sessions[sent[1].payload.sessionId].events[1].status = sent[1].payload.response
  /\ sessions[sent[1].payload.sessionId].events[2].status = Undefined

\* ---------------------------------------------------------------- C24
\* C24: a login_attempt sends each registered observer exactly one
\* login-attempt and nothing else, creates no SessionRecord, appends to no log
\* and leaves the originator map unchanged.
C24_LoginAttemptRelayedNotRecorded ==
  [][\A c \in Conns :
       LoginAttempt(c)
       => (/\ \A a \in Range(adminSockets) : Len(MsgsTo(sent', a, "login-attempt")) = 1
           /\ Len(sent') = Len(adminSockets)
           /\ UNCHANGED <<sessions, userSessions>>)]_vars

\* A login_attempt reached two observers with a session and an originator
\* recorded.
C24_Witness ==
  /\ lastOp.op = "login_attempt"
  /\ Len(adminSockets) = 2
  /\ Len(sent) = 2
  /\ DOMAIN sessions # {}
  /\ userSessions # <<>>

====
